---- MODULE Spec2Model ----
(***************************************************************************)
(* Model of the ED_ADC library (src/include/ED_adc.h, src/src/ED_adc.cpp): *)
(* ADCUnit (single-shot handle, lazily provisioned streaming handle),      *)
(* ADCChannel (creation, read) and the percentile-width statistic.         *)
(* The ESP-IDF driver is a mock whose outcomes are chosen by the           *)
(* environment; every driver call an operation makes is logged in `calls`. *)
(***************************************************************************)
EXTENDS Integers, Sequences, FiniteSets

\* ---------------------------------------------------------------- bounds
\* Longest vector handed to calculatePercWidth in SpecPW.
PWMaxLen == 6
\* Largest sample_count of read in SpecRead.
MaxSamples == 3
\* Most calls of adc_continuous_new_handle the mock driver accepts in Spec.
MaxProvision == 3
\* Most ADCChannel objects alive at once in Spec.
MaxChannels == 2
\* Most samples one poll of the streaming driver delivers.
MaxPollSamples == 2
\* Most polls one sampleForDuration call makes.
MaxPolls == 3
\* Longest duration_ms passed to sampleForDuration.
MaxDurationMs == 1
\* Clock ticks the timer advances in one behaviour.
MaxTicks == 3

\* Calibrated millivolt values handed to calculatePercWidth in SpecPW.
Voltages == {100, 201, 300}
\* Calibrated millivolt values (int) adc_cali_raw_to_voltage hands to read; the
\* curve-fitting correction can leave a reading near 0 V slightly negative.
CalibratedMv == Voltages \cup {-5}
\* sample_delay_ms arguments of read.
Delays == {0, 10}
\* percentile arguments (int8_t) of calculatePercWidth.
Percentiles == {-128, -1, 127} \cup {p \in 0..100 : p % 5 = 0 \/ p % 10 \in {1, 9}}
\* adc_channel_t arguments of ADCChannel::create.
ChannelIds == {0, 1}
\* Failure codes the driver hands back.
DriverErrors == {"ESP_ERR_INVALID_ARG", "ESP_ERR_TIMEOUT"}

\* ----------------------------------------------------- program constants
ESP_OK == "ESP_OK"
NULL == 0
INT32_MAX == 2147483647
INT32_MIN == -2147483647 - 1
\* A member that no initializer and no driver call has written.
UNINIT == -1

VARIABLES
    unit,        \* the ADCUnit object (alive = FALSE: no object)
    driver,      \* mock driver: streaming handles and call counters
    channels,    \* ADCChannel objects handed to the caller
    unit_ret,    \* ADCUnit::create returned non-null
    chan_ret,    \* ADCChannel::create returned non-null
    gch_ret,     \* handle returned by the latest getContinuousHandle()
    op,          \* the operation that ran last
    calls,       \* driver / OS calls of the operation that ran last
    rd,          \* locals of ADCChannel::read in progress
    result,      \* the caller's ADCReadResult
    result0,     \* result as it was when read was entered
    rd_ret,      \* return value of the latest read
    pw,          \* one call of calculatePercWidth: arguments and outcome
    sfd,         \* locals of ADCChannel::sampleForDuration in progress
    now,         \* esp_timer_get_time(): microseconds since boot
    streaming,   \* mock driver: the streaming handle is started
    last_sfd,    \* history: how the latest finished sampleForDuration call went
    dec          \* one decoding of a poll buffer: arguments and outcome

vars == <<unit, driver, channels, unit_ret, chan_ret, gch_ret, op, calls,
          rd, result, result0, rd_ret, pw, sfd, now, streaming, last_sfd, dec>>

StreamVars == <<sfd, now, streaming, last_sfd, dec>>

\* One logged call: the function and the esp_err_t it returned (ESP_OK for void).
Call(fn, err) == [fn |-> fn, err |-> err]
\* The code a mocked call returns for a boolean outcome.
ErrOf(ok) == IF ok THEN ESP_OK ELSE "ESP_FAIL"

\* --------------------------------------------- single-precision arithmetic
\* A float is m * 2^(-e) with m < 2^24 (IEEE-754 binary32, round to nearest,
\* ties to even), as the target computes static_cast<float> expressions.
RECURSIVE BitLen(_)
BitLen(x) == IF x = 0 THEN 0 ELSE 1 + BitLen(x \div 2)

\* The float nearest to num * 2^(-e).
RoundF32(num, e) ==
    IF BitLen(num) <= 24 THEN [m |-> num, e |-> e]
    ELSE LET s == BitLen(num) - 24
             q == num \div (2 ^ s)
             r == num % (2 ^ s)
             half == 2 ^ (s - 1)
             up == r > half \/ (r = half /\ q % 2 = 1)
         IN  [m |-> IF up THEN q + 1 ELSE q, e |-> e - s]

\* static_cast<float>(percentile) / 100.0f, for 10 <= p <= 90.
F32Div100(p) ==
    LET e == IF p * 8 < 100 THEN 27
             ELSE IF p * 4 < 100 THEN 26
             ELSE IF p * 2 < 100 THEN 25 ELSE 24
        q == (p * (2 ^ e)) \div 100
        r == (p * (2 ^ e)) % 100
        up == 2 * r > 100 \/ (2 * r = 100 /\ q % 2 = 1)
    IN  [m |-> IF up THEN q + 1 ELSE q, e |-> e]

\* 1.0f - f
F32OneMinus(f) == RoundF32((2 ^ f.e) - f.m, f.e)

\* k * f, k a size_t converted to float (exact for k < 2^24)
F32Times(k, f) == RoundF32(k * f.m, f.e)

\* static_cast<size_t>(f), truncation toward zero
F32ToSize(f) == IF f.e >= 0 THEN f.m \div (2 ^ f.e) ELSE f.m * (2 ^ (0 - f.e))

Min2(a, b) == IF a < b THEN a ELSE b

\* ------------------------------------------------------ uint32_t arithmetic
\* A uint32_t is kept as two 16-bit halves, value = hi * 65536 + lo, so that
\* every value up to 2^32 - 1 is represented.
U32Zero == [hi |-> 0, lo |-> 0]

\* The uint32_t an int converts to (v mod 2^32).
U32OfInt(v) == [hi |-> ((v - (v % 65536)) \div 65536) % 65536, lo |-> v % 65536]

\* sum += voltage: the int is converted to uint32_t, the addition wraps.
U32AddInt(s, v) ==
    LET w == U32OfInt(v)
        lo == s.lo + w.lo
        hi == s.hi + w.hi + (lo \div 65536)
    IN  [hi |-> hi % 65536, lo |-> lo % 65536]

\* sum / sample_count: unsigned division, for 0 < n < 32768.
U32DivInt(s, n) ==
    [hi |-> s.hi \div n, lo |-> ((s.hi % n) * 65536 + s.lo) \div n]

\* The int a uint32_t converts to on assignment (two's complement).
U32ToInt(u) ==
    IF u.hi >= 32768 THEN (u.hi - 65536) * 65536 + u.lo ELSE u.hi * 65536 + u.lo

\* ------------------------------------------------------ calculatePercWidth
RECURSIVE InsertSorted(_, _)
InsertSorted(x, s) ==
    IF s = <<>> THEN <<x>>
    ELSE IF x <= Head(s) THEN <<x>> \o s
    ELSE <<Head(s)>> \o InsertSorted(x, Tail(s))

\* std::sort(data.begin(), data.end())
RECURSIVE StdSort(_)
StdSort(s) == IF s = <<>> THEN <<>> ELSE InsertSorted(Head(s), StdSort(Tail(s)))

\* lower_index (0-based) for a vector of n elements
LowerIndex(n, p) == Min2(F32ToSize(F32Times(n - 1, F32Div100(p))), n - 1)

\* upper_index (0-based) for a vector of n elements
UpperIndex(n, p) ==
    Min2(F32ToSize(F32Times(n - 1, F32OneMinus(F32Div100(p)))), n - 1)

\* A percentile mutant: the range check lets 91..100 through.
PercentileRejected_Upto100(p) == p < 10 \/ p > 100

\* if (percentile < 10 || percentile > 90) return 0;
PercentileRejected(p) == p < 10 \/ p > 90

\* calculatePercWidth(data, percentile): the value returned, the vector as the
\* call leaves it (it is sorted in place), and whether an element was read.
CalculatePercWidth(data, p) ==
    IF PercentileRejected(p) THEN [ret |-> 0, data |-> data, indexed |-> FALSE]
    ELSE IF data = <<>> THEN [ret |-> 0, data |-> data, indexed |-> FALSE]
    ELSE LET s == StdSort(data)
             n == Len(s)
             lower_value == s[LowerIndex(n, p) + 1]
             upper_value == s[UpperIndex(n, p) + 1]
         IN  [ret |-> upper_value - lower_value, data |-> s, indexed |-> TRUE]

\* ------------------------------------------------------------ initial state
NoUnit == [alive |-> FALSE, is_initialized |-> FALSE, cont_handle |-> NULL,
           continuous_initialized |-> FALSE, oneshot_handle |-> UNINIT]

NoDriver == [live |-> {}, newHandleCalls |-> 0, handlesAllocated |-> 0,
             configCalls |-> 0]

ZeroResult == [average_mv |-> 0, min_mv |-> 0, max_mv |-> 0,
               p30_width_mv |-> 0, p60_width_mv |-> 0]

RdIdle == [pc |-> "idle", sample_count |-> 0, sample_delay_ms |-> 0, i |-> 0,
           voltages |-> <<>>, sum |-> U32Zero, min |-> INT32_MAX, max |-> INT32_MIN]

PwIdle == [pc |-> "idle", data |-> <<>>, percentile |-> 50, ret |-> 0,
           out |-> <<>>, indexed |-> FALSE]

SfdIdle == [pc |-> "idle", chan |-> 0, duration_ms |-> 0, start_time |-> 0,
            voltages |-> <<>>, buffer |-> <<>>, polls |-> <<>>]

DecIdle == [pc |-> "idle", buffer |-> <<>>, bytes_read |-> 0, raws |-> <<>>]

\* The streaming side before any sampleForDuration call.
StreamIdle ==
    /\ sfd = SfdIdle
    /\ now = 0
    /\ streaming = FALSE
    /\ last_sfd = "none"
    /\ dec = DecIdle

Init ==
    /\ unit = NoUnit
    /\ driver = NoDriver
    /\ channels = <<>>
    /\ unit_ret = FALSE
    /\ chan_ret = FALSE
    /\ gch_ret = NULL
    /\ op = "none"
    /\ calls = <<>>
    /\ rd = RdIdle
    /\ result = ZeroResult
    /\ result0 = ZeroResult
    /\ rd_ret = ESP_OK
    /\ pw = PwIdle
    /\ StreamIdle

\* ------------------------------------------------------------------ ADCUnit
\* ADCUnit::ADCUnit(unit_id): the object after the constructor ran, the driver's
\* adc_oneshot_new_unit having succeeded (ok) or failed.
ADCUnitCtor(ok) ==
    [alive |-> TRUE, is_initialized |-> ok, cont_handle |-> NULL,
     continuous_initialized |-> FALSE,
     oneshot_handle |-> IF ok THEN 1 ELSE UNINIT]

\* A create mutant: the factory hands out the unit whatever the constructor did.
UnitCreateReturns_Always(u) == TRUE

\* ADCUnit::create: if (new_unit->isInitialized()) return new_unit;
UnitCreateReturns(u) == u.is_initialized

\* A provisioning mutant: a failed configuration keeps the handle allocated.
AfterConfigFailure_NoDeinit(d, h) == d

\* adc_continuous_deinit(_cont_handle) on the failure path of
\* adc_continuous_config: the driver releases handle h.
AfterConfigFailure(d, h) == [d EXCEPT !.live = @ \ {h}]

\* ensureContinuousInitialized past its first line: allocate a streaming
\* handle, configure it, release it again when the configuration fails.
\* allocOk / cfgOk are the outcomes of adc_continuous_new_handle and
\* adc_continuous_config. A failed allocation leaves _cont_handle as it was.
ProvisionContinuous(u, d, allocOk, cfgOk) ==
    IF ~allocOk
    THEN [unit |-> u,
          driver |-> [d EXCEPT !.newHandleCalls = @ + 1],
          calls |-> <<Call("adc_continuous_new_handle", "ESP_ERR_NO_MEM")>>,
          err |-> "ESP_ERR_NO_MEM"]
    ELSE LET h == d.handlesAllocated + 1
             d1 == [d EXCEPT !.newHandleCalls = @ + 1,
                             !.handlesAllocated = h,
                             !.live = @ \cup {h},
                             !.configCalls = @ + 1]
             u1 == [u EXCEPT !.cont_handle = h]
         IN  IF ~cfgOk
             THEN [unit |-> u1,
                   driver |-> AfterConfigFailure(d1, h),
                   calls |-> <<Call("adc_continuous_new_handle", ESP_OK),
                               Call("adc_continuous_config", "ESP_ERR_INVALID_ARG"),
                               Call("adc_continuous_deinit", ESP_OK)>>,
                   err |-> "ESP_ERR_INVALID_ARG"]
             ELSE [unit |-> [u1 EXCEPT !.continuous_initialized = TRUE],
                   driver |-> d1,
                   calls |-> <<Call("adc_continuous_new_handle", ESP_OK),
                               Call("adc_continuous_config", ESP_OK)>>,
                   err |-> ESP_OK]

\* A caching mutant: the _continuous_initialized test is missing.
EnsureContinuousInitialized_NoCache(u, d, allocOk, cfgOk) ==
    ProvisionContinuous(u, d, allocOk, cfgOk)

\* ADCUnit::ensureContinuousInitialized()
EnsureContinuousInitialized(u, d, allocOk, cfgOk) ==
    IF u.continuous_initialized
    THEN [unit |-> u, driver |-> d, calls |-> <<>>, err |-> ESP_OK]
    ELSE ProvisionContinuous(u, d, allocOk, cfgOk)

\* ADCUnit::getContinuousHandle(): the outcome of ensureContinuousInitialized
\* and the handle handed back.
GetContinuousHandleOf(u, d, allocOk, cfgOk) ==
    LET r == EnsureContinuousInitialized(u, d, allocOk, cfgOk)
    IN  [unit |-> r.unit, driver |-> r.driver, calls |-> r.calls,
         handle |-> IF r.err = ESP_OK THEN r.unit.cont_handle ELSE NULL]

\* --------------------------------------------------------------- ADCChannel
\* A constructor mutant: the channel counts as initialized once its single-shot
\* configuration succeeded, whatever the calibration did.
ChannelInitialized_ConfigOnly(chanOk, caliOk) == chanOk

\* ADCChannel::ADCChannel: _is_initialized is set only after both
\* adc_oneshot_config_channel and adc_cali_create_scheme_curve_fitting succeeded.
ChannelInitialized(chanOk, caliOk) == chanOk /\ caliOk

\* ADCChannel::ADCChannel(unit, channel, atten): the object and the driver calls
\* the constructor body makes, given the handles its initializer list fetched.
ADCChannelCtor(oneshot, cont, channel, chanOk, caliOk) ==
    [obj |-> [oneshot_handle |-> oneshot, cont_handle |-> cont,
              channel |-> channel,
              cali_handle |-> IF chanOk /\ caliOk THEN 1 ELSE UNINIT,
              is_initialized |-> ChannelInitialized(chanOk, caliOk)],
     calls |-> IF ~chanOk
               THEN <<Call("adc_oneshot_config_channel", ErrOf(FALSE))>>
               ELSE <<Call("adc_oneshot_config_channel", ESP_OK),
                      Call("adc_cali_create_scheme_curve_fitting", ErrOf(caliOk))>>]

\* ------------------------------------------------- Spec: units and channels
ReadVars == <<rd, result, result0, rd_ret>>

\* ADCUnit::create(unit_id). ~ADCUnit is declared in the header and defined in
\* no source file; deleting a unit whose provisioning failed is taken to make
\* no driver call (it holds no handle).
UnitCreate(ok) ==
    /\ ~unit.alive
    /\ LET u == ADCUnitCtor(ok)
           keep == UnitCreateReturns(u)
       IN  /\ unit' = IF keep THEN u ELSE NoUnit
           /\ unit_ret' = keep
    /\ op' = "ADCUnit::create"
    /\ calls' = <<Call("adc_oneshot_new_unit", ErrOf(ok))>>
    /\ UNCHANGED <<driver, channels, chan_ret, gch_ret, pw>>
    /\ UNCHANGED ReadVars
    /\ UNCHANGED StreamVars

\* Whether the mock driver still accepts a streaming allocation.
MayProvision == unit.continuous_initialized \/ driver.newHandleCalls < MaxProvision

\* unit->getContinuousHandle(), called by the application
GetContinuousHandle(allocOk, cfgOk) ==
    /\ unit.alive
    /\ MayProvision
    /\ LET r == GetContinuousHandleOf(unit, driver, allocOk, cfgOk)
       IN  /\ unit' = r.unit
           /\ driver' = r.driver
           /\ calls' = r.calls
           /\ gch_ret' = r.handle
    /\ op' = "ADCUnit::getContinuousHandle"
    /\ UNCHANGED <<channels, unit_ret, chan_ret, pw>>
    /\ UNCHANGED ReadVars
    /\ UNCHANGED StreamVars

\* ADCChannel::create(unit, channel, atten). The member initializers call
\* unit->getContinuousHandle() before the constructor body runs. ~ADCChannel is
\* defined in no source file; deleting a channel that failed to initialize is
\* taken to make no driver call (it holds no calibration context).
ChannelCreate(channel, allocOk, cfgOk, chanOk, caliOk) ==
    /\ unit.alive
    /\ MayProvision
    /\ Len(channels) < MaxChannels
    /\ LET g == GetContinuousHandleOf(unit, driver, allocOk, cfgOk)
           c == ADCChannelCtor(unit.oneshot_handle, g.handle, channel, chanOk, caliOk)
       IN  /\ unit' = g.unit
           /\ driver' = g.driver
           /\ gch_ret' = g.handle
           /\ calls' = g.calls \o c.calls
           /\ chan_ret' = c.obj.is_initialized
           /\ channels' = IF c.obj.is_initialized
                          THEN Append(channels, c.obj) ELSE channels
    /\ op' = "ADCChannel::create"
    /\ UNCHANGED <<unit_ret, pw>>
    /\ UNCHANGED ReadVars
    /\ UNCHANGED StreamVars

Next ==
    \/ \E ok \in BOOLEAN : UnitCreate(ok)
    \/ \E allocOk \in BOOLEAN, cfgOk \in BOOLEAN : GetContinuousHandle(allocOk, cfgOk)
    \/ \E channel \in ChannelIds, allocOk \in BOOLEAN, cfgOk \in BOOLEAN,
          chanOk \in BOOLEAN, caliOk \in BOOLEAN :
           ChannelCreate(channel, allocOk, cfgOk, chanOk, caliOk)

Spec == Init /\ [][Next]_vars

\* --------------------------------------------- SpecRead: ADCChannel::read
\* The state after ADCUnit::create and ADCChannel::create(unit, 0, atten) both
\* succeeded: one unit, one channel, nothing read yet.
InitRead ==
    LET u0 == ADCUnitCtor(TRUE)
        g == GetContinuousHandleOf(u0, NoDriver, TRUE, TRUE)
        c == ADCChannelCtor(u0.oneshot_handle, g.handle, 0, TRUE, TRUE)
    IN  /\ unit = g.unit
        /\ driver = g.driver
        /\ channels = <<c.obj>>
        /\ unit_ret = TRUE
        /\ chan_ret = TRUE
        /\ gch_ret = g.handle
        /\ op = "ADCChannel::create"
        /\ calls = g.calls \o c.calls
        /\ rd = RdIdle
        /\ result = ZeroResult
        /\ result0 = ZeroResult
        /\ rd_ret = ESP_OK
        /\ pw = PwIdle
        /\ StreamIdle

UnitVars == <<unit, driver, channels, unit_ret, chan_ret, gch_ret, pw>>

\* read(sample_count, sample_delay_ms, result) is entered: lines 74-79.
ReadCall(n, d) ==
    /\ rd.pc = "idle"
    /\ \E c \in 1..Len(channels) : channels[c].is_initialized
    /\ rd' = [pc |-> "loop", sample_count |-> n, sample_delay_ms |-> d, i |-> 0,
              voltages |-> <<>>, sum |-> U32Zero, min |-> INT32_MAX, max |-> INT32_MIN]
    /\ result0' = result
    /\ op' = "ADCChannel::read"
    /\ calls' = <<>>
    /\ UNCHANGED <<result, rd_ret>>
    /\ UNCHANGED UnitVars
    /\ UNCHANGED StreamVars

\* A failure mutant: the running minimum and maximum are stored before the
\* error return.
ResultOnReadFailure_Partial(res, r) == [res EXCEPT !.min_mv = r.min, !.max_mv = r.max]

\* The caller's result when adc_oneshot_read fails: `return err;` writes nothing.
ResultOnReadFailure(res, r) == res

\* A failure mutant: the loop goes on to the next sample after a failed read.
AfterReadFailure_Continue(r) == [r EXCEPT !.i = @ + 1]

\* if (err != ESP_OK) { ...; return err; }: read is left at once.
AfterReadFailure(r) == [r EXCEPT !.pc = "returned"]

\* One pass of the loop body up to the delay test: adc_oneshot_read returns err;
\* on success the calibrated value v is accumulated.
ReadSample(err, v) ==
    /\ rd.pc = "loop"
    /\ rd.i < rd.sample_count
    /\ IF err # ESP_OK
       THEN /\ calls' = Append(calls, Call("adc_oneshot_read", err))
            /\ rd' = AfterReadFailure(rd)
            /\ rd_ret' = err
            /\ result' = ResultOnReadFailure(result, rd)
       ELSE /\ calls' = calls \o <<Call("adc_oneshot_read", ESP_OK),
                                   Call("adc_cali_raw_to_voltage", ESP_OK)>>
            /\ rd' = [rd EXCEPT
                        !.voltages = Append(@, v),
                        !.sum = U32AddInt(@, v),
                        !.min = IF v < @ THEN v ELSE @,
                        !.max = IF v > @ THEN v ELSE @,
                        !.pc = IF rd.sample_delay_ms > 0 THEN "delay" ELSE "loop",
                        !.i = IF rd.sample_delay_ms > 0 THEN @ ELSE @ + 1]
            /\ UNCHANGED <<result, rd_ret>>
    /\ UNCHANGED <<op, result0>>
    /\ UNCHANGED UnitVars
    /\ UNCHANGED StreamVars

\* vTaskDelay(pdMS_TO_TICKS(sample_delay_ms)) at the end of the loop body, then i++
ReadDelay ==
    /\ rd.pc = "delay"
    /\ calls' = Append(calls, Call("vTaskDelay", ESP_OK))
    /\ rd' = [rd EXCEPT !.pc = "loop", !.i = @ + 1]
    /\ UNCHANGED <<op, result, result0, rd_ret>>
    /\ UNCHANGED UnitVars
    /\ UNCHANGED StreamVars

\* The statistics written after the loop: lines 102-106. The second
\* calculatePercWidth call receives the vector the first one sorted.
ReadStatistics(r) ==
    LET w30 == CalculatePercWidth(r.voltages, 30)
        w60 == CalculatePercWidth(w30.data, 60)
    IN  [result |-> [average_mv |-> U32ToInt(U32DivInt(r.sum, r.sample_count)),
                     min_mv |-> r.min,
                     max_mv |-> r.max,
                     p30_width_mv |-> w30.ret,
                     p60_width_mv |-> w60.ret],
         voltages |-> w60.data]

\* The loop condition fails: the result is filled in and read returns ESP_OK.
ReadFinish ==
    /\ rd.pc = "loop"
    /\ rd.i >= rd.sample_count
    /\ LET st == ReadStatistics(rd)
       IN  /\ result' = st.result
           /\ rd' = [rd EXCEPT !.pc = "returned", !.voltages = st.voltages]
    /\ rd_ret' = ESP_OK
    /\ UNCHANGED <<op, calls, result0>>
    /\ UNCHANGED UnitVars
    /\ UNCHANGED StreamVars

\* The caller takes the return value; the locals of read are gone.
ReadReturn ==
    /\ rd.pc = "returned"
    /\ rd' = RdIdle
    /\ UNCHANGED <<op, calls, result, result0, rd_ret>>
    /\ UNCHANGED UnitVars
    /\ UNCHANGED StreamVars

NextRead ==
    \/ \E n \in 1..MaxSamples, d \in Delays : ReadCall(n, d)
    \/ \E err \in {ESP_OK} \cup DriverErrors, v \in CalibratedMv : ReadSample(err, v)
    \/ ReadDelay
    \/ ReadFinish
    \/ ReadReturn

SpecRead == InitRead /\ [][NextRead]_vars

\* ------------------------------------------- SpecPW: calculatePercWidth alone
SeqsUpTo(S, k) == UNION {[1..m -> S] : m \in 0..k}

InitPW ==
    /\ unit = NoUnit
    /\ driver = NoDriver
    /\ channels = <<>>
    /\ unit_ret = FALSE
    /\ chan_ret = FALSE
    /\ gch_ret = NULL
    /\ op = "none"
    /\ calls = <<>>
    /\ rd = RdIdle
    /\ result = ZeroResult
    /\ result0 = ZeroResult
    /\ rd_ret = ESP_OK
    /\ StreamIdle
    /\ \E d \in SeqsUpTo(Voltages, PWMaxLen), p \in Percentiles :
           pw = [pc |-> "call", data |-> d, percentile |-> p, ret |-> 0,
                 out |-> d, indexed |-> FALSE]

PercWidthCall ==
    /\ pw.pc = "call"
    /\ LET r == CalculatePercWidth(pw.data, pw.percentile)
       IN  pw' = [pw EXCEPT !.pc = "returned", !.ret = r.ret, !.out = r.data,
                            !.indexed = r.indexed]
    /\ UNCHANGED <<unit, driver, channels, unit_ret, chan_ret, gch_ret, op,
                   calls, rd, result, result0, rd_ret>>
    /\ UNCHANGED StreamVars

NextPW == PercWidthCall

SpecPW == InitPW /\ [][NextPW]_vars

\* ------------------------------- SpecDecode: decoding one poll buffer alone
\* Byte values a poll buffer holds: both nibbles of the high byte are exercised.
Bytes == {0, 18, 52, 240, 255}

\* The model's `buffer_size`: even, as the 1024 bytes of the code are.
BufferSize == 2 * MaxPollSamples

\* 0xFFF
RawMask == 4095

RECURSIVE BitAnd(_, _)
\* a & b on non-negative ints
BitAnd(a, b) ==
    IF a = 0 \/ b = 0 THEN 0
    ELSE (a % 2) * (b % 2) + 2 * BitAnd(a \div 2, b \div 2)

RECURSIVE BitOr(_, _)
\* a | b on non-negative ints
BitOr(a, b) ==
    IF a = 0 THEN b
    ELSE IF b = 0 THEN a
    ELSE (IF a % 2 = 1 \/ b % 2 = 1 THEN 1 ELSE 0) + 2 * BitOr(a \div 2, b \div 2)

\* a << k on non-negative ints below 2^23
ShiftLeft(a, k) == a * (2 ^ k)

\* A decoding mutant: the record is read high byte first.
DecodeSample_HighByteFirst(lo, hi) == BitAnd(BitOr(ShiftLeft(lo, 8), hi), RawMask)

\* raw_reading = (buffer[i + 1] << 8) | buffer[i]; raw_reading &= 0xFFF;
\* lo is buffer[i], hi is buffer[i + 1].
DecodeSample(lo, hi) == BitAnd(BitOr(ShiftLeft(hi, 8), lo), RawMask)

RECURSIVE DecodeFrom(_, _, _)
\* for (size_t i = ...; i < bytes_read; i += 2): the raw codes from C index i on.
\* C's buffer[i] is buffer[i + 1] here.
DecodeFrom(buffer, bytes_read, i) ==
    IF i >= bytes_read THEN <<>>
    ELSE <<DecodeSample(buffer[i + 1], buffer[i + 2])>>
         \o DecodeFrom(buffer, bytes_read, i + 2)

\* The decode loop of one successful poll.
DecodeBuffer(buffer, bytes_read) == DecodeFrom(buffer, bytes_read, 0)

InitDecode ==
    /\ unit = NoUnit
    /\ driver = NoDriver
    /\ channels = <<>>
    /\ unit_ret = FALSE
    /\ chan_ret = FALSE
    /\ gch_ret = NULL
    /\ op = "none"
    /\ calls = <<>>
    /\ rd = RdIdle
    /\ result = ZeroResult
    /\ result0 = ZeroResult
    /\ rd_ret = ESP_OK
    /\ pw = PwIdle
    /\ sfd = SfdIdle
    /\ now = 0
    /\ streaming = FALSE
    /\ last_sfd = "none"
    /\ \E b \in [1..BufferSize -> Bytes], n \in 0..BufferSize :
           dec = [pc |-> "call", buffer |-> b, bytes_read |-> n, raws |-> <<>>]

DecodeCall ==
    /\ dec.pc = "call"
    /\ dec' = [dec EXCEPT !.pc = "returned",
                          !.raws = DecodeBuffer(dec.buffer, dec.bytes_read)]
    /\ UNCHANGED <<unit, driver, channels, unit_ret, chan_ret, gch_ret, op,
                   calls, rd, result, result0, rd_ret, pw>>
    /\ UNCHANGED <<sfd, now, streaming, last_sfd>>

NextDecode == DecodeCall

SpecDecode == InitDecode /\ [][NextDecode]_vars

\* ------------------------- SpecStream: ADCChannel::sampleForDuration
\* Microseconds the timer advances in one tick: half a millisecond, so that the
\* division by 1000 of the loop test truncates.
TickUs == 500

Durations == 0..MaxDurationMs

\* What one successful poll delivers: one record, or two records the second of
\* which has a high byte whose upper nibble is set.
PollData == {<<52, 18>>, <<255, 255, 0, 240>>}

\* Failures of adc_continuous_read: "no data yet" and another error.
PollErrors == {"ESP_ERR_TIMEOUT", "ESP_ERR_INVALID_STATE"}

\* The mock calibration context: adc_cali_raw_to_voltage as a function of the
\* raw code. sampleForDuration runs on a channel ADCChannel::create returned, so
\* _cali_handle is a created scheme and the conversion succeeds.
CaliMv(raw) == (raw * 2500) \div 4095

\* The driver's answer to adc_continuous_start(handle): a null handle and a
\* handle already started are refused, otherwise the driver decides.
StartErr(handle, running, driverOk) ==
    IF handle = NULL THEN "ESP_ERR_INVALID_ARG"
    ELSE IF running THEN "ESP_ERR_INVALID_STATE"
    ELSE ErrOf(driverOk)

\* (esp_timer_get_time() - start_time) / 1000
ElapsedMs(s) == (now - s.start_time) \div 1000

\* A loop mutant: the bound is inclusive.
LoopContinues_Inclusive(elapsed_ms, duration_ms) == elapsed_ms <= duration_ms

\* The loop condition: ... / 1000 < duration_ms
LoopContinues(elapsed_ms, duration_ms) == elapsed_ms < duration_ms

\* A start mutant: the `return voltages;` after a failed start is missing.
AfterStartFailure_Continue(s) == [s EXCEPT !.pc = "loop"]

\* if (start_err != ESP_OK) { ...; free(buffer); return voltages; }
AfterStartFailure(s) == [s EXCEPT !.pc = "returned", !.buffer = <<>>]

\* A poll mutant: a failed poll leaves the loop.
AfterPollFailure_Abort(s) == [s EXCEPT !.pc = "stop"]

\* ret != ESP_OK: at most a warning is logged, the loop goes on.
AfterPollFailure(s) == [s EXCEPT !.pc = "loop"]

\* A stop mutant: streaming is stopped only when samples were collected.
StopIssued_OnlyWithSamples(s, err) ==
    IF s.voltages = <<>> THEN <<>> ELSE <<Call("adc_continuous_stop", err)>>

\* esp_err_t stop_err = adc_continuous_stop(_cont_handle);
StopIssued(s, err) == <<Call("adc_continuous_stop", err)>>

\* A stop mutant: the loop body runs once more after the stop.
AfterStop_PollAgain(s) == [s EXCEPT !.pc = "poll"]

\* free(buffer); return voltages;
AfterStop(s) == [s EXCEPT !.pc = "returned", !.buffer = <<>>]

\* The state after ADCUnit::create and ADCChannel::create both succeeded, the
\* channel's initializer list having provisioned streaming (a handle is cached)
\* or having failed to allocate it (null is cached).
InitStream ==
    \E allocOk \in BOOLEAN :
        LET u0 == ADCUnitCtor(TRUE)
            g == GetContinuousHandleOf(u0, NoDriver, allocOk, TRUE)
            c == ADCChannelCtor(u0.oneshot_handle, g.handle, 0, TRUE, TRUE)
        IN  /\ unit = g.unit
            /\ driver = g.driver
            /\ channels = <<c.obj>>
            /\ unit_ret = TRUE
            /\ chan_ret = TRUE
            /\ gch_ret = g.handle
            /\ op = "ADCChannel::create"
            /\ calls = g.calls \o c.calls
            /\ rd = RdIdle
            /\ result = ZeroResult
            /\ result0 = ZeroResult
            /\ rd_ret = ESP_OK
            /\ pw = PwIdle
            /\ StreamIdle

OtherVars == <<unit, driver, channels, unit_ret, chan_ret, gch_ret,
               rd, result, result0, rd_ret, pw, dec>>

\* sampleForDuration(duration_ms) on channel c up to the loop: the buffer is
\* allocated and zeroed, streaming is started, start_time is taken.
SfdCall(c, duration_ms, mallocOk, driverOk) ==
    /\ sfd.pc = "idle"
    /\ c \in 1..Len(channels)
    /\ now + duration_ms * 1000 <= MaxTicks * TickUs
    /\ LET s0 == [SfdIdle EXCEPT !.chan = c, !.duration_ms = duration_ms]
           s1 == [s0 EXCEPT !.buffer = [k \in 1..BufferSize |-> 0]]
           err == StartErr(channels[c].cont_handle, streaming, driverOk)
       IN  IF ~mallocOk
           THEN /\ sfd' = [s0 EXCEPT !.pc = "returned"]
                /\ calls' = <<>>
                /\ UNCHANGED streaming
           ELSE IF err # ESP_OK
           THEN /\ sfd' = AfterStartFailure(s1)
                /\ calls' = <<Call("adc_continuous_start", err)>>
                /\ UNCHANGED streaming
           ELSE /\ sfd' = [s1 EXCEPT !.pc = "loop", !.start_time = now]
                /\ calls' = <<Call("adc_continuous_start", ESP_OK)>>
                /\ streaming' = TRUE
    /\ op' = "ADCChannel::sampleForDuration"
    /\ UNCHANGED <<now, last_sfd>>
    /\ UNCHANGED OtherVars

\* One evaluation of the while condition. A call polls at most MaxPolls times
\* before the clock moves on.
SfdLoopTest ==
    /\ sfd.pc = "loop"
    /\ IF LoopContinues(ElapsedMs(sfd), sfd.duration_ms)
       THEN /\ Len(sfd.polls) < MaxPolls
            /\ sfd' = [sfd EXCEPT !.pc = "poll"]
       ELSE sfd' = [sfd EXCEPT !.pc = "stop"]
    /\ UNCHANGED <<now, streaming, last_sfd, op, calls>>
    /\ UNCHANGED OtherVars

\* The loop body: adc_continuous_read returns ret and, when ret is ESP_OK,
\* has written data to the front of the buffer and its length to bytes_read.
SfdPoll(ret, data) ==
    /\ sfd.pc = "poll"
    /\ IF ret = ESP_OK
       THEN LET buf == data \o SubSeq(sfd.buffer, Len(data) + 1, BufferSize)
                raws == DecodeBuffer(buf, Len(data))
                mv == [k \in 1..Len(raws) |-> CaliMv(raws[k])]
            IN  /\ sfd' = [sfd EXCEPT
                             !.pc = "loop",
                             !.buffer = buf,
                             !.voltages = @ \o mv,
                             !.polls = Append(@, [ret |-> ESP_OK, data |-> data])]
                /\ calls' = calls \o <<Call("adc_continuous_read", ESP_OK)>>
                                  \o [k \in 1..Len(raws) |->
                                        Call("adc_cali_raw_to_voltage", ESP_OK)]
       ELSE /\ sfd' = AfterPollFailure(
                          [sfd EXCEPT !.polls = Append(@, [ret |-> ret, data |-> <<>>])])
            /\ calls' = Append(calls, Call("adc_continuous_read", ret))
    /\ UNCHANGED <<now, streaming, last_sfd, op>>
    /\ UNCHANGED OtherVars

\* After the loop: adc_continuous_stop succeeds (ok) or fails, the buffer is
\* freed. A failed stop leaves the driver streaming.
SfdStop(ok) ==
    /\ sfd.pc = "stop"
    /\ LET cs == StopIssued(sfd, ErrOf(ok))
       IN  /\ calls' = calls \o cs
           /\ streaming' = IF cs # <<>> /\ ok THEN FALSE ELSE streaming
    /\ sfd' = AfterStop(sfd)
    /\ UNCHANGED <<now, last_sfd, op>>
    /\ UNCHANGED OtherVars

\* How a finished call is remembered: a sampleForDuration(0) whose start
\* succeeded, by the outcome of its stop; any other call as "other".
Remembered(s, cs) ==
    IF s.duration_ms = 0 /\ cs # <<>> /\ cs[1] = Call("adc_continuous_start", ESP_OK)
    THEN IF cs[Len(cs)] = Call("adc_continuous_stop", ESP_OK)
         THEN "zero_stopped" ELSE "zero_stop_failed"
    ELSE "other"

\* `return voltages;` reaches the caller.
SfdReturn ==
    /\ sfd.pc = "returned"
    /\ sfd' = SfdIdle
    /\ last_sfd' = Remembered(sfd, calls)
    /\ UNCHANGED <<now, streaming, op, calls>>
    /\ UNCHANGED OtherVars

\* The monotonic timer advances.
Tick ==
    /\ now < MaxTicks * TickUs
    /\ now' = now + TickUs
    /\ UNCHANGED <<sfd, streaming, last_sfd, op, calls>>
    /\ UNCHANGED OtherVars

NextStream ==
    \/ \E c \in 1..MaxChannels, d \in Durations, mallocOk \in BOOLEAN,
          driverOk \in BOOLEAN : SfdCall(c, d, mallocOk, driverOk)
    \/ SfdLoopTest
    \/ \E data \in PollData : SfdPoll(ESP_OK, data)
    \/ \E ret \in PollErrors : SfdPoll(ret, <<>>)
    \/ \E ok \in BOOLEAN : SfdStop(ok)
    \/ SfdReturn
    \/ Tick

SpecStream == InitStream /\ [][NextStream]_vars

\* The same program with a clock that keeps advancing and a calling thread that
\* keeps running.
SpecStreamFair ==
    /\ SpecStream
    /\ WF_vars(Tick)
    /\ WF_vars(SfdLoopTest)
    /\ WF_vars((\E data \in PollData : SfdPoll(ESP_OK, data))
               \/ (\E ret \in PollErrors : SfdPoll(ret, <<>>)))
    /\ WF_vars(\E ok \in BOOLEAN : SfdStop(ok))

\* --------------------------------------------------- claims under SpecRead
ReadReturned == rd.pc = "returned"
CountCalls(fn) == Len(SelectSeq(calls, LAMBDA c : c.fn = fn))

\* C1: when a single-shot driver read of read(n, d, result) fails, read returns
\* the driver's failure code and every field of result has the value it had
\* before the call.
C1_FailedReadLeavesResult ==
    (ReadReturned /\ rd_ret # ESP_OK) =>
        /\ result = result0
        /\ calls[Len(calls)] = Call("adc_oneshot_read", rd_ret)
        /\ rd_ret \in DriverErrors

\* C1 witness: the third read of a call fails with a timeout after two samples
\* were accumulated, the caller's result holding an earlier run's statistics.
C1_Witness ==
    /\ ReadReturned
    /\ rd_ret = "ESP_ERR_TIMEOUT"
    /\ rd.sample_count = 3
    /\ rd.voltages = <<300, 100>>
    /\ result0.max_mv = 201
    /\ result = result0

\* C2: in a successful read with sample_delay_ms > 0 exactly n-1 sleeps occur,
\* none of them after the last driver read; with sample_delay_ms = 0 none occurs.
C2_SleepOnlyBetweenReads ==
    (ReadReturned /\ rd_ret = ESP_OK) =>
        IF rd.sample_delay_ms > 0
        THEN /\ CountCalls("vTaskDelay") = rd.sample_count - 1
             /\ calls[Len(calls)].fn # "vTaskDelay"
        ELSE CountCalls("vTaskDelay") = 0

RECURSIVE SumSeq(_)
SumSeq(s) == IF s = <<>> THEN 0 ELSE Head(s) + SumSeq(Tail(s))
SeqMin(s) == CHOOSE x \in {s[k] : k \in 1..Len(s)} : \A k \in 1..Len(s) : x <= s[k]
SeqMax(s) == CHOOSE x \in {s[k] : k \in 1..Len(s)} : \A k \in 1..Len(s) : x >= s[k]
\* The integer quotient a / b truncated toward zero, b > 0.
TruncDiv(a, b) == IF a >= 0 THEN a \div b ELSE 0 - ((0 - a) \div b)

\* C11: when all n reads succeed, read returns ESP_OK with average_mv the
\* truncating quotient (sum of the n calibrated values) / n, min_mv the smallest
\* and max_mv the largest of them, for every sequence of calibrated values.
C11_AverageMinMax ==
    (ReadReturned /\ rd_ret = ESP_OK) =>
        /\ Len(rd.voltages) = rd.sample_count
        /\ result.average_mv = TruncDiv(SumSeq(rd.voltages), rd.sample_count)
        /\ result.min_mv = SeqMin(rd.voltages)
        /\ result.max_mv = SeqMax(rd.voltages)

\* C12: when calibration yields the same V for every sample of read(n, 0, ...),
\* average_mv = min_mv = max_mv = V and both percentile widths are 0.
C12_ConstantInput ==
    (/\ ReadReturned
     /\ rd_ret = ESP_OK
     /\ rd.sample_delay_ms = 0
     /\ \A k \in 1..Len(rd.voltages) : rd.voltages[k] = rd.voltages[1])
        => /\ result.average_mv = rd.voltages[1]
           /\ result.min_mv = rd.voltages[1]
           /\ result.max_mv = rd.voltages[1]
           /\ result.p30_width_mv = 0
           /\ result.p60_width_mv = 0

FailedRead(c) == c.fn = "adc_oneshot_read" /\ c.err # ESP_OK

\* C20: read issues its driver reads one after the other and stops at the first
\* failure: a successful call has issued exactly n reads, a call whose k-th read
\* failed exactly k reads and k-1 calibrations, and nothing (no read, no
\* calibration, no sleep, no write of the statistics) follows the failing read.
C20_ReadsStopAtFirstFailure ==
    op = "ADCChannel::read" =>
        /\ \A j \in 1..Len(calls) : FailedRead(calls[j]) => j = Len(calls)
        /\ CountCalls("adc_oneshot_read") <= rd.sample_count \/ rd.pc = "idle"
        /\ (ReadReturned /\ rd_ret = ESP_OK) =>
               /\ CountCalls("adc_oneshot_read") = rd.sample_count
               /\ CountCalls("adc_cali_raw_to_voltage") = rd.sample_count
        /\ (ReadReturned /\ rd_ret # ESP_OK) =>
               /\ FailedRead(calls[Len(calls)])
               /\ CountCalls("adc_oneshot_read") = rd.i + 1
               /\ CountCalls("adc_cali_raw_to_voltage") = rd.i
               /\ Len(rd.voltages) = rd.i
               /\ result = result0

\* C20 witness: read(3, 10, ...) whose second driver read failed: two reads,
\* one calibration and one sleep were issued, then nothing.
C20_Witness ==
    /\ ReadReturned
    /\ rd_ret = "ESP_ERR_INVALID_ARG"
    /\ rd.sample_count = 3
    /\ rd.i = 1
    /\ calls = <<Call("adc_oneshot_read", ESP_OK),
                 Call("adc_cali_raw_to_voltage", ESP_OK),
                 Call("vTaskDelay", ESP_OK),
                 Call("adc_oneshot_read", "ESP_ERR_INVALID_ARG")>>

\* ------------------------------------------------------- claims under Spec
StreamingCalls == {"adc_continuous_new_handle", "adc_continuous_config"}
NoStreamingCall(cs) == \A k \in 1..Len(cs) : cs[k].fn \notin StreamingCalls

\* C3: once the streaming handle is provisioned, every later call (direct, or
\* through ADCChannel::create) returns the same cached handle and makes no
\* further driver allocation or configuration.
C3_ProvisionedOnce ==
    [][unit.continuous_initialized =>
          /\ unit'.continuous_initialized
          /\ unit'.cont_handle = unit.cont_handle
          /\ gch_ret' = unit.cont_handle
          /\ driver' = driver
          /\ NoStreamingCall(calls')
          /\ \A k \in 1..Len(channels') :
                 k > Len(channels) => channels'[k].cont_handle = unit.cont_handle
      ]_vars

\* C3 witness: two channels and then a direct call all got the handle of the
\* one allocation the driver ever saw.
C3_Witness ==
    /\ op = "ADCUnit::getContinuousHandle"
    /\ calls = <<>>
    /\ unit.continuous_initialized
    /\ gch_ret = unit.cont_handle
    /\ gch_ret # NULL
    /\ Len(channels) = 2
    /\ channels[1].cont_handle = gch_ret
    /\ channels[2].cont_handle = gch_ret
    /\ driver.newHandleCalls = 1

\* Some streaming provisioning attempt on the unit has failed.
StreamingFailedBefore == driver.newHandleCalls > Cardinality(driver.live)

\* C4: after a failed streaming provisioning attempt every later
\* getContinuousHandle() returns null and no further driver allocation or
\* configuration call is made.
C4_FailurePermanent ==
    [][StreamingFailedBefore =>
          /\ ~unit'.continuous_initialized
          /\ gch_ret' = NULL
          /\ driver'.newHandleCalls = driver.newHandleCalls
          /\ driver'.configCalls = driver.configCalls
      ]_vars

\* C5: the streaming handles allocated and not released number 1 when the unit
\* is streaming-initialized (the cached handle) and 0 when it is not; a call
\* that returned null has left none allocated.
C5_NoLeakedHandle ==
    /\ driver.live = IF unit.continuous_initialized THEN {unit.cont_handle} ELSE {}
    /\ (gch_ret = NULL => driver.live = {})

\* C5 witness: two attempts each allocated a handle, failed to configure it and
\* released it; the latest call returned null.
C5_Witness ==
    /\ op = "ADCUnit::getContinuousHandle"
    /\ gch_ret = NULL
    /\ calls = <<Call("adc_continuous_new_handle", ESP_OK),
                 Call("adc_continuous_config", "ESP_ERR_INVALID_ARG"),
                 Call("adc_continuous_deinit", ESP_OK)>>
    /\ driver.handlesAllocated = 2
    /\ driver.live = {}

\* C6: ADCUnit::create returns a unit exactly when adc_oneshot_new_unit
\* succeeded, and a failing create makes no streaming provisioning call.
C6_UnitCreateIffOneshot ==
    op = "ADCUnit::create" =>
        /\ unit_ret <=> (calls = <<Call("adc_oneshot_new_unit", ESP_OK)>>)
        /\ unit.alive <=> unit_ret
        /\ NoStreamingCall(calls)
        /\ driver.newHandleCalls = 0
        /\ driver.configCalls = 0

\* C6 witness: single-shot provisioning failed and create returned null.
C6_Witness ==
    /\ op = "ADCUnit::create"
    /\ calls = <<Call("adc_oneshot_new_unit", ErrOf(FALSE))>>
    /\ ~unit_ret
    /\ ~unit.alive

HasCall(c) == \E k \in 1..Len(calls) : calls[k] = c
Attempted(fn) == \E k \in 1..Len(calls) : calls[k].fn = fn

\* C7: ADCChannel::create returns a channel exactly when both
\* adc_oneshot_config_channel and adc_cali_create_scheme_curve_fitting
\* succeeded; after a failed configuration the calibration is not attempted;
\* the channel is returned whether or not streaming provisioning succeeded.
C7_ChannelCreateIffBoth ==
    op = "ADCChannel::create" =>
        /\ chan_ret <=> (/\ HasCall(Call("adc_oneshot_config_channel", ESP_OK))
                         /\ HasCall(Call("adc_cali_create_scheme_curve_fitting", ESP_OK)))
        /\ ~HasCall(Call("adc_oneshot_config_channel", ESP_OK))
               => ~Attempted("adc_cali_create_scheme_curve_fitting")
        /\ Attempted("adc_oneshot_config_channel")

\* C7 witness: streaming allocation failed during the constructor, yet the
\* channel was configured, calibrated and returned with a null streaming handle.
C7_Witness ==
    /\ op = "ADCChannel::create"
    /\ chan_ret
    /\ gch_ret = NULL
    /\ Len(channels) = 1
    /\ channels[1].cont_handle = NULL
    /\ channels[1].is_initialized
    /\ calls[1] = Call("adc_continuous_new_handle", "ESP_ERR_NO_MEM")

\* C19: for every existing channel the cached streaming handle is the handle
\* the unit currently holds as provisioned: non-null (the unit's) whenever the
\* unit is streaming-initialized, null whenever it is not.
C19_ChannelHandleAgrees ==
    \A k \in 1..Len(channels) :
        channels[k].cont_handle =
            IF unit.continuous_initialized THEN unit.cont_handle ELSE NULL

\* ----------------------------------------------------- claims under SpecPW
PwReturned == pw.pc = "returned"
PwValidCall == PwReturned /\ pw.percentile >= 10 /\ pw.percentile <= 90 /\ pw.data # <<>>

\* C8: for every percentile in [10, 90] and every non-empty input the
\* percentile width returned is non-negative.
C8_WidthNonNegative == PwValidCall => pw.ret >= 0

\* C9: for a percentile below 10 or above 90 (whatever the vector) and for an
\* empty vector (whatever the percentile) calculatePercWidth returns 0, reads no
\* element and leaves the vector as it was.
C9_RejectedYieldsZero ==
    (PwReturned /\ (pw.percentile < 10 \/ pw.percentile > 90 \/ pw.data = <<>>))
        => (pw.ret = 0 /\ ~pw.indexed /\ pw.out = pw.data)

\* C9 witness: an out-of-range percentile on an unsorted vector of three
\* different values has returned.
C9_Witness ==
    /\ PwReturned
    /\ pw.percentile = 95
    /\ pw.data = <<300, 100, 201>>
    /\ pw.ret = 0

\* The index pair of the specification: exact integer arithmetic.
ExactLower(n, p) == Min2(((n - 1) * p) \div 100, n - 1)
ExactUpper(n, p) == Min2(((n - 1) * (100 - p)) \div 100, n - 1)

\* C10: for every percentile in [10, 90] and every non-empty vector of length
\* n the width is S[u] - S[l], S the vector sorted ascending,
\* l = min(floor((n-1)*p/100), n-1), u = min(floor((n-1)*(100-p)/100), n-1).
C10_WidthIsExactIndexFormula ==
    PwValidCall =>
        LET S == StdSort(pw.data)
            n == Len(S)
        IN  pw.ret = S[ExactUpper(n, pw.percentile) + 1]
                     - S[ExactLower(n, pw.percentile) + 1]

\* -------------------------------------------------- claims under SpecStream
SfdReturned == sfd.pc = "returned"
SfdActive == sfd.pc # "idle"
StartOk == Call("adc_continuous_start", ESP_OK)
StopOk == Call("adc_continuous_stop", ESP_OK)
SfdStarted == SfdActive /\ calls # <<>> /\ calls[1] = StartOk
LastCall == calls[Len(calls)]
RefusedAsRunning ==
    /\ SfdActive
    /\ calls # <<>>
    /\ calls[1] = Call("adc_continuous_start", "ESP_ERR_INVALID_STATE")

C14_StartFailureReturnsEmpty ==
    /\ (SfdActive /\ calls # <<>> /\ calls[1].err # ESP_OK) =>
           /\ SfdReturned
           /\ Len(calls) = 1
           /\ calls[1].fn = "adc_continuous_start"
           /\ sfd.voltages = <<>>
           /\ sfd.polls = <<>>
    /\ (SfdActive /\ channels[sfd.chan].cont_handle = NULL) =>
           /\ SfdReturned
           /\ sfd.voltages = <<>>
           /\ calls \in {<<>>, <<Call("adc_continuous_start", "ESP_ERR_INVALID_ARG")>>}

\* A call on a channel whose cached streaming handle is null has returned
\* after its start was refused.
C14_Witness ==
    /\ SfdReturned
    /\ channels[sfd.chan].cont_handle = NULL
    /\ calls = <<Call("adc_continuous_start", "ESP_ERR_INVALID_ARG")>>
    /\ sfd.voltages = <<>>

\* The calibrated samples of one delivered byte string, record by record.
SamplesOf(data) ==
    [k \in 1..(Len(data) \div 2) |->
        CaliMv((data[2 * k - 1] + 256 * data[2 * k]) % 4096)]

RECURSIVE SamplesOfPolls(_)
\* The samples of the successful polls of a poll history, in poll order.
SamplesOfPolls(ps) ==
    IF ps = <<>> THEN <<>>
    ELSE (IF Head(ps).ret = ESP_OK THEN SamplesOf(Head(ps).data) ELSE <<>>)
         \o SamplesOfPolls(Tail(ps))

\* C15: at every point of a sampleForDuration call, and when it has returned
\* whatever the stop call did, the collected sequence is the concatenation in
\* poll order of the calibrated samples of the successful polls; every poll,
\* failed or not, is followed by the loop test again and keeps the samples
\* collected before it.
C15_FailedPollsKeepSamples ==
    /\ [](SfdActive => sfd.voltages = SamplesOfPolls(sfd.polls))
    /\ [][(sfd.pc = "poll" /\ sfd'.polls # sfd.polls) =>
              /\ sfd'.pc = "loop"
              /\ Len(sfd'.voltages) >= Len(sfd.voltages)
              /\ SubSeq(sfd'.voltages, 1, Len(sfd.voltages)) = sfd.voltages]_vars
    /\ [][(sfd.pc = "stop" /\ sfd'.pc # "stop") =>
              /\ sfd'.pc = "returned"
              /\ sfd'.voltages = sfd.voltages]_vars

\* A call has returned the samples of its first and third poll, the second
\* poll having failed with an error other than the timeout and the stop call
\* having failed too.
C15_Witness ==
    /\ SfdReturned
    /\ Len(sfd.polls) = 3
    /\ sfd.polls[1] = [ret |-> ESP_OK, data |-> <<255, 255, 0, 240>>]
    /\ sfd.polls[2].ret = "ESP_ERR_INVALID_STATE"
    /\ sfd.polls[3] = [ret |-> ESP_OK, data |-> <<52, 18>>]
    /\ sfd.voltages = <<2500, 0, 344>>
    /\ LastCall = Call("adc_continuous_stop", "ESP_FAIL")

\* C16: the loop test starts a new poll exactly when the elapsed milliseconds
\* since the start are below duration_ms and goes on to the stop call exactly
\* when they are not, whatever was polled so far; the stop call is reached from
\* the loop test only; and with the clock advancing every call that entered the
\* loop eventually returns, having called stop.
C16_LoopEndsOnTimeOnly ==
    /\ [][(sfd.pc = "loop" /\ sfd'.pc # "loop") =>
              /\ sfd'.pc = "poll" <=> ElapsedMs(sfd) < sfd.duration_ms
              /\ sfd'.pc = "stop" <=> ElapsedMs(sfd) >= sfd.duration_ms]_vars
    /\ [][(sfd'.pc = "stop" /\ sfd.pc # "stop") => sfd.pc = "loop"]_vars
    /\ (sfd.pc = "loop") ~> (SfdReturned /\ SfdStarted
                              /\ LastCall.fn = "adc_continuous_stop")

\* A call of one millisecond has returned after two or more polls none of which
\* delivered a sample: it left the loop because the time was up.
C16_Witness ==
    /\ SfdReturned
    /\ sfd.duration_ms = 1
    /\ Len(sfd.polls) >= 2
    /\ sfd.voltages = <<>>
    /\ now - sfd.start_time >= 1000
    /\ SfdStarted
    /\ LastCall.fn = "adc_continuous_stop"

\* C17: in a call whose start succeeded the start is the first driver call and
\* the only start; until the loop is left no stop has been called and the
\* driver is streaming; at the return stop has been called exactly once, as the
\* last driver call, after all the polls, and a successful stop leaves the
\* driver not streaming.
C17_StopExactlyOnceAfterPolls ==
    /\ (SfdActive /\ calls # <<>>) =>
           /\ calls[1].fn = "adc_continuous_start"
           /\ CountCalls("adc_continuous_start") = 1
           /\ CountCalls("adc_continuous_read") = Len(sfd.polls)
    /\ (SfdStarted /\ sfd.pc \in {"loop", "poll", "stop"}) =>
           /\ CountCalls("adc_continuous_stop") = 0
           /\ streaming
    /\ (SfdStarted /\ SfdReturned) =>
           /\ CountCalls("adc_continuous_stop") = 1
           /\ LastCall.fn = "adc_continuous_stop"
           /\ LastCall = StopOk => ~streaming

\* A call has returned after a poll with data, a timeout and another error,
\* its stop succeeded and the driver is not streaming.
C17_Witness ==
    /\ SfdReturned
    /\ SfdStarted
    /\ {sfd.polls[k].ret : k \in 1..Len(sfd.polls)}
           = {ESP_OK, "ESP_ERR_TIMEOUT", "ESP_ERR_INVALID_STATE"}
    /\ LastCall = StopOk
    /\ ~streaming

\* -------------------------------------------------- claims under SpecDecode
DecReturned == dec.pc = "returned"

\* C18: every decoded raw code lies in 0..4095, and decoding an even number b
\* of delivered bytes gives exactly b/2 raw codes, in buffer order, each equal
\* to (lo + 256 * hi) mod 4096 of its two consecutive bytes.
C18_DecodeLittleEndian12Bit ==
    DecReturned =>
        /\ \A k \in 1..Len(dec.raws) : dec.raws[k] >= 0 /\ dec.raws[k] <= 4095
        /\ dec.bytes_read % 2 = 0 =>
               /\ Len(dec.raws) = dec.bytes_read \div 2
               /\ \A k \in 1..Len(dec.raws) :
                      dec.raws[k] = (dec.buffer[2 * k - 1]
                                     + 256 * dec.buffer[2 * k]) % 4096

\* A full buffer was decoded whose second record has a high byte with a
\* non-zero upper nibble and a non-zero lower nibble: 0x34, 0x12 gives 0x234,
\* and 0xFF, 0xF0 gives 0x0FF.
C18_Witness ==
    /\ DecReturned
    /\ dec.bytes_read = 4
    /\ SubSeq(dec.buffer, 1, 4) = <<52, 18, 255, 240>>
    /\ dec.raws = <<564, 255>>

====
